---- MODULE Spec2Model ----
(***************************************************************************)
(* A model of the request handlers of src/src/main.rs: generate_keypair,   *)
(* create_token, mint_token, sign_message and send_sol.                    *)
(*                                                                         *)
(* Text is a sequence of one-character strings, bytes are 0..255, and the  *)
(* base58 / base64 transcoders are computed digit by digit as the bs58 and *)
(* base64 crates compute them.  Ed25519 itself (key derivation, signing)   *)
(* is not part of the repository: it is a fixed deterministic function of  *)
(* its inputs, which is all the handlers rely on.                          *)
(***************************************************************************)
EXTENDS Integers, Sequences, FiniteSets, TLC

(* ------------------------------------------------------------------ *)
(* Bounds of the model                                                  *)
(* ------------------------------------------------------------------ *)

\* how many distinct seeds the random source may hand out
NumSeeds == 2
\* how many distinct well-formed public keys the requests draw from
NumKeys == 3

(* ------------------------------------------------------------------ *)
(* Sizes fixed by the libraries the handlers call                       *)
(* ------------------------------------------------------------------ *)

\* size of a Pubkey
PUBKEY_BYTES == 32
\* Pubkey::from_str refuses longer text before decoding it
MAX_BASE58_LEN == 44
\* ed25519 seed, and seed ++ public key
SECRET_KEY_LENGTH == 32
KEYPAIR_LENGTH == 64
SIGNATURE_LENGTH == 64
\* spl_token::instruction::TokenInstruction tags
InitializeMintTag == 0
MintToTag == 7

(* ------------------------------------------------------------------ *)
(* State                                                                *)
(* ------------------------------------------------------------------ *)

VARIABLES
    verifiesPubkey, \* whether the linked Keypair::from_bytes compares the
                    \* public half with the one derived from the seed
    issued,         \* the KeypairData generate_keypair has returned so far
    op,             \* the handler serving the request in flight, or "idle"
    req,            \* its request body
    resp,           \* its response body, None until it returns
    calls,          \* the library and RPC calls it has made, in order
    pc,             \* send_sol's position
    tx,             \* the transfer send_sol has built, if any
    earlier         \* one earlier sign_message exchange, kept for comparison

vars == << verifiesPubkey, issued, op, req, resp, calls, pc, tx, earlier >>

(* ------------------------------------------------------------------ *)
(* Sequences                                                            *)
(* ------------------------------------------------------------------ *)

Reverse(s) == [i \in 1..Len(s) |-> s[Len(s) + 1 - i]]

RECURSIVE LeadingCount(_, _)
\* number of leading elements of s equal to z
LeadingCount(s, z) ==
    IF s = << >> \/ Head(s) # z THEN 0 ELSE 1 + LeadingCount(Tail(s), z)

Repeat(x, n) == [i \in 1..n |-> x]

IndexOf(alphabet, c) ==
    IF \E i \in 1..Len(alphabet) : alphabet[i] = c
    THEN (CHOOSE i \in 1..Len(alphabet) : alphabet[i] = c) - 1
    ELSE -1

(* ------------------------------------------------------------------ *)
(* base58 (bs58 crate, Bitcoin alphabet, no checksum)                   *)
(* ------------------------------------------------------------------ *)

B58Alphabet ==
    << "1", "2", "3", "4", "5", "6", "7", "8", "9", "A", "B", "C", "D", "E", "F", "G",
       "H", "J", "K", "L", "M", "N", "P", "Q", "R", "S", "T", "U", "V", "W", "X", "Y",
       "Z", "a", "b", "c", "d", "e", "f", "g", "h", "i", "j", "k", "m", "n", "o", "p",
       "q", "r", "s", "t", "u", "v", "w", "x", "y", "z" >>

RECURSIVE CarryDigits(_, _)
\* what is left of a carry, digit by digit, least significant first
CarryDigits(carry, to) ==
    IF carry = 0 THEN << >> ELSE << carry % to >> \o CarryDigits(carry \div to, to)

\* one pass of the transcoders' inner loop over the little-endian digits in
\* base `to`: digit := (carry + digit * from) % to, carry /= to, for every
\* digit, then the carry appended.  The range is halved rather than walked,
\* which bounds the depth of the evaluation and changes no digit.
CarryPass(digits, carry, from, to) ==
    LET RECURSIVE CarryRange(_, _, _)
        CarryRange(lo, hi, c) ==
            IF lo = hi
            THEN LET v == c + digits[lo] * from
                 IN  [out |-> << v % to >>, carry |-> v \div to]
            ELSE LET mid == (lo + hi) \div 2
                     left == CarryRange(lo, mid, c)
                     right == CarryRange(mid + 1, hi, left.carry)
                 IN  [out |-> left.out \o right.out, carry |-> right.carry]
    IN  IF digits = << >> THEN CarryDigits(carry, to)
        ELSE LET pass == CarryRange(1, Len(digits), carry)
             IN  pass.out \o CarryDigits(pass.carry, to)

RECURSIVE RebaseRange(_, _, _, _, _, _)
\* the outer loop over input[lo..hi] (most significant first, base `from`),
\* one CarryPass per input digit in order, on the little-endian digits `acc`
RebaseRange(input, lo, hi, acc, from, to) ==
    IF lo > hi THEN acc
    ELSE IF lo = hi THEN CarryPass(acc, input[lo], from, to)
    ELSE LET mid == (lo + hi) \div 2
             left == RebaseRange(input, lo, mid, acc, from, to)
         IN  IF Len(left) >= 0
             THEN RebaseRange(input, mid + 1, hi, left, from, to)
             ELSE left

\* the digits of `input` in base `to`, least significant first
Rebase(input, from, to) == RebaseRange(input, 1, Len(input), << >>, from, to)

\* bs58::encode(bytes).into_string()
bs58_encode(bytes) ==
    LET digits == Rebase(bytes, 256, 58) \o Repeat(0, LeadingCount(bytes, 0))
    IN  Reverse([i \in 1..Len(digits) |-> B58Alphabet[digits[i] + 1]])

\* bs58::decode(text).into_vec(): Ok(bytes) or Err
bs58_decode(text) ==
    LET vals == [i \in 1..Len(text) |-> IndexOf(B58Alphabet, text[i])]
    IN  IF \E i \in 1..Len(vals) : vals[i] < 0
        THEN [ok |-> FALSE, bytes |-> << >>]
        ELSE [ok |-> TRUE,
              bytes |-> Reverse(Rebase(vals, 58, 256)
                                \o Repeat(0, LeadingCount(text, "1")))]

(* ------------------------------------------------------------------ *)
(* base64 (base64 crate, standard alphabet, padded)                     *)
(* ------------------------------------------------------------------ *)

B64Alphabet ==
    << "A", "B", "C", "D", "E", "F", "G", "H", "I", "J", "K", "L", "M", "N", "O", "P",
       "Q", "R", "S", "T", "U", "V", "W", "X", "Y", "Z", "a", "b", "c", "d", "e", "f",
       "g", "h", "i", "j", "k", "l", "m", "n", "o", "p", "q", "r", "s", "t", "u", "v",
       "w", "x", "y", "z", "0", "1", "2", "3", "4", "5", "6", "7", "8", "9", "+", "/" >>

RECURSIVE base64_encode(_)
\* base64::encode(bytes)
base64_encode(bytes) ==
    LET n == Len(bytes)
        b1 == bytes[1]
        b2 == IF n >= 2 THEN bytes[2] ELSE 0
        b3 == IF n >= 3 THEN bytes[3] ELSE 0
        c1 == B64Alphabet[(b1 \div 4) + 1]
        c2 == B64Alphabet[((b1 % 4) * 16 + (b2 \div 16)) + 1]
        c3 == B64Alphabet[((b2 % 16) * 4 + (b3 \div 64)) + 1]
        c4 == B64Alphabet[(b3 % 64) + 1]
    IN  IF n = 0 THEN << >>
        ELSE IF n = 1 THEN << c1, c2, "=", "=" >>
        ELSE IF n = 2 THEN << c1, c2, c3, "=" >>
        ELSE << c1, c2, c3, c4 >> \o base64_encode(SubSeq(bytes, 4, n))

(* ------------------------------------------------------------------ *)
(* Values                                                               *)
(* ------------------------------------------------------------------ *)

\* Option<T>: None is the empty sequence, Some(x) the one-element sequence
None == << >>
Some(x) == << x >>

\* a message or other fixed text of the program, kept whole
Literal(s) == << s >>

\* JSON text restricted to the characters the requests use, with their
\* UTF-8 codes (str::as_bytes)
MessageChars == << "a", "e", "s", "t" >>
MessageCodes == << 97, 101, 115, 116 >>
as_bytes(text) ==
    [i \in 1..Len(text) |-> MessageCodes[IndexOf(MessageChars, text[i]) + 1]]

\* a u64 is four 16-bit limbs, most significant first
U64Limb == 65536
\* a faulty variant: the amount most significant byte first
u64_to_be_bytes(amount) ==
    [i \in 1..8 |->
        LET limb == amount[((i - 1) \div 2) + 1]
        IN  IF i % 2 = 1 THEN limb \div 256 ELSE limb % 256]

u64_to_le_bytes(amount) ==
    [i \in 1..8 |->
        LET limb == amount[4 - ((i - 1) \div 2)]
        IN  IF i % 2 = 1 THEN limb % 256 ELSE limb \div 256]

(* ------------------------------------------------------------------ *)
(* solana_sdk::pubkey::Pubkey                                           *)
(* ------------------------------------------------------------------ *)

\* Pubkey::from_str: Err(WrongSize) for text longer than MAX_BASE58_LEN or
\* decoding to other than PUBKEY_BYTES bytes, Err(Invalid) for text that is
\* not base58
Pubkey_from_str(text) ==
    IF Len(text) > MAX_BASE58_LEN
    THEN [ok |-> FALSE, err |-> "WrongSize", bytes |-> << >>]
    ELSE LET d == bs58_decode(text)
         IN  IF ~d.ok THEN [ok |-> FALSE, err |-> "Invalid", bytes |-> << >>]
             ELSE IF Len(d.bytes) # PUBKEY_BYTES
             THEN [ok |-> FALSE, err |-> "WrongSize", bytes |-> << >>]
             ELSE [ok |-> TRUE, err |-> "", bytes |-> d.bytes]

\* Pubkey::to_string
Pubkey_to_string(bytes) == bs58_encode(bytes)

\* spl_token::id() and solana_sdk::sysvar::rent::id()
spl_token_id ==
    << 6, 221, 246, 225, 215, 101, 161, 147, 217, 203, 225, 70, 206, 235, 121, 172,
       28, 180, 133, 237, 95, 91, 55, 145, 58, 140, 245, 133, 126, 255, 0, 169 >>
sysvar_rent_id ==
    << 6, 167, 213, 23, 25, 44, 92, 81, 33, 140, 201, 76, 61, 74, 241, 127,
       88, 218, 238, 8, 155, 161, 253, 68, 227, 219, 217, 138, 0, 0, 0, 0 >>

(* ------------------------------------------------------------------ *)
(* Ed25519 (ed25519-dalek behind solana_sdk::signature::Keypair)        *)
(* ------------------------------------------------------------------ *)

RECURSIVE SumSeq(_)
SumSeq(s) == IF s = << >> THEN 0 ELSE Head(s) + SumSeq(Tail(s))

\* PublicKey::from(&SecretKey): a fixed function of the seed
PublicFromSecret(seed) ==
    [i \in 1..PUBKEY_BYTES |->
        IF i = 1 THEN 2 * (seed[SECRET_KEY_LENGTH] % 128)
        ELSE (seed[SECRET_KEY_LENGTH + 1 - i] * 3 + 2 * i + 1) % 256]

\* whether 32 bytes decompress to a curve point (PublicKey::from_bytes); every
\* derived key does, and some byte strings do not
IsCurvePoint(bytes) == bytes[1] % 2 = 0

\* a faulty variant: signing that mixes in a draw from the random source, whose
\* state moves with every keypair generated
Ed25519SignHedged(secret, public, msg) ==
    [i \in 1..SIGNATURE_LENGTH |->
        (secret[((i - 1) % SECRET_KEY_LENGTH) + 1] * 5
         + public[((i + 6) % PUBKEY_BYTES) + 1] * 3
         + SumSeq(msg) * 7 + Len(msg) * i + i + Cardinality(issued)) % 256]

\* Keypair::sign_message: RFC 8032 signing, a fixed function of the seed, the
\* stored public half and the message bytes
Ed25519Sign(secret, public, msg) ==
    [i \in 1..SIGNATURE_LENGTH |->
        (secret[((i - 1) % SECRET_KEY_LENGTH) + 1] * 5
         + public[((i + 6) % PUBKEY_BYTES) + 1] * 3
         + SumSeq(msg) * 7 + Len(msg) * i + i) % 256]

(* ------------------------------------------------------------------ *)
(* solana_sdk::signature::Keypair                                       *)
(* ------------------------------------------------------------------ *)

\* Keypair::new() from the seed the random source hands out
Keypair_new(seed) == [secret |-> seed, public |-> PublicFromSecret(seed)]

\* a faulty variant: only the seed is exported
Keypair_secret_bytes(kp) == kp.secret

\* Keypair::to_bytes: seed ++ public key
Keypair_to_bytes(kp) == kp.secret \o kp.public

\* a faulty variant: the public key recomputed from the seed
Keypair_pubkey_rederived(kp) == PublicFromSecret(kp.secret)

\* Keypair::pubkey
Keypair_pubkey(kp) == kp.public

\* a faulty variant: only a lower bound on the length, the halves cut at fixed offsets
Keypair_from_bytes_prefix(bytes) ==
    LET secret == SubSeq(bytes, 1, SECRET_KEY_LENGTH)
        public == SubSeq(bytes, SECRET_KEY_LENGTH + 1, KEYPAIR_LENGTH)
        Err(e) == [ok |-> FALSE, err |-> e, kp |-> None]
    IN  IF Len(bytes) < KEYPAIR_LENGTH THEN Err("BytesLength")
        ELSE IF ~IsCurvePoint(public) THEN Err("PointDecompression")
        ELSE IF verifiesPubkey /\ public # PublicFromSecret(secret)
        THEN Err("PubkeyMismatch")
        ELSE [ok |-> TRUE, err |-> "",
              kp |-> Some([secret |-> secret, public |-> public])]

\* Keypair::from_bytes: the seed is the first SECRET_KEY_LENGTH bytes, the
\* public half the rest, which must be PUBKEY_BYTES bytes that decompress to a
\* curve point; a build that verifies also wants it equal to the derived key
Keypair_from_bytes(bytes) ==
    LET secret == SubSeq(bytes, 1, SECRET_KEY_LENGTH)
        public == SubSeq(bytes, SECRET_KEY_LENGTH + 1, Len(bytes))
        Err(e) == [ok |-> FALSE, err |-> e, kp |-> None]
    IN  IF Len(bytes) < KEYPAIR_LENGTH THEN Err("BytesLength")
        ELSE IF Len(public) # PUBKEY_BYTES THEN Err("BytesLength")
        ELSE IF ~IsCurvePoint(public) THEN Err("PointDecompression")
        ELSE IF verifiesPubkey /\ public # PublicFromSecret(secret)
        THEN Err("PubkeyMismatch")
        ELSE [ok |-> TRUE, err |-> "",
              kp |-> Some([secret |-> secret, public |-> public])]

(* ------------------------------------------------------------------ *)
(* spl_token::instruction                                               *)
(* ------------------------------------------------------------------ *)

AccountMeta_new(pubkey, is_signer) ==
    [pubkey |-> pubkey, is_signer |-> is_signer, is_writable |-> TRUE]

AccountMeta_new_readonly(pubkey, is_signer) ==
    [pubkey |-> pubkey, is_signer |-> is_signer, is_writable |-> FALSE]

\* COption<Pubkey> in instruction data: a flag byte, then the key if present
pack_pubkey_option(opt) ==
    IF opt = None THEN << 0 >> ELSE << 1 >> \o opt[1]

\* initialize_mint(token_program_id, mint, mint_authority, freeze_authority, decimals)
initialize_mint(program_id, mint, authority, freeze_authority, decimals) ==
    IF program_id # spl_token_id
    THEN [ok |-> FALSE, ix |-> None]
    ELSE [ok |-> TRUE,
          ix |-> Some([program_id |-> program_id,
                       accounts |-> << AccountMeta_new(mint, FALSE),
                                       AccountMeta_new_readonly(sysvar_rent_id, FALSE) >>,
                       data |-> << InitializeMintTag, decimals >> \o authority
                                \o pack_pubkey_option(freeze_authority)])]

\* mint_to(token_program_id, mint, account, owner, signer_pubkeys, amount)
mint_to(program_id, mint, account, owner, signer_pubkeys, amount) ==
    IF program_id # spl_token_id
    THEN [ok |-> FALSE, ix |-> None]
    ELSE [ok |-> TRUE,
          ix |-> Some([program_id |-> program_id,
                       accounts |-> << AccountMeta_new(mint, FALSE),
                                       AccountMeta_new(account, FALSE),
                                       AccountMeta_new_readonly(owner, signer_pubkeys = << >>) >>
                                    \o [i \in 1..Len(signer_pubkeys) |->
                                          AccountMeta_new_readonly(signer_pubkeys[i], TRUE)],
                       data |-> << MintToTag >> \o u64_to_le_bytes(amount)])]

(* ------------------------------------------------------------------ *)
(* Handlers: each yields the response body and the calls it made        *)
(* ------------------------------------------------------------------ *)

\* the map over ix.accounts into AccountMetaData
AccountMetaData(accounts) ==
    [i \in 1..Len(accounts) |->
        [pubkey |-> Pubkey_to_string(accounts[i].pubkey),
         is_signer |-> accounts[i].is_signer,
         is_writable |-> accounts[i].is_writable]]

error_response(msg) ==
    [success |-> FALSE,
     data |-> [program_id |-> << >>, accounts |-> << >>, instruction_data |-> msg]]

\* the TokenInstructionResponse of a built instruction
instruction_response(ix) ==
    [success |-> TRUE,
     data |-> [program_id |-> Pubkey_to_string(ix.program_id),
               accounts |-> AccountMetaData(ix.accounts),
               instruction_data |-> base64_encode(ix.data)]]

generate_keypair(seed) ==
    LET keypair == Keypair_new(seed)
        pubkey == Pubkey_to_string(Keypair_pubkey(keypair))
        secret == bs58_encode(Keypair_to_bytes(keypair))
    IN  [resp |-> [success |-> TRUE, data |-> [pubkey |-> pubkey, secret |-> secret]],
         calls |-> << "Keypair::new" >>]

\* a faulty variant: the mint authority passed as freeze authority too
create_token_with_freeze(r) ==
    LET mint_pubkey == Pubkey_from_str(r.mint)
        authority_pubkey == Pubkey_from_str(r.mintAuthority)
        built == initialize_mint(spl_token_id, mint_pubkey.bytes, authority_pubkey.bytes,
                                 Some(authority_pubkey.bytes), r.decimals)
    IN  IF ~mint_pubkey.ok
        THEN [resp |-> error_response(Literal("Invalid mint pubkey")), calls |-> << >>]
        ELSE IF ~authority_pubkey.ok
        THEN [resp |-> error_response(Literal("Invalid mint authority pubkey")),
              calls |-> << >>]
        ELSE IF ~built.ok
        THEN [resp |-> error_response(Literal("Failed to create instruction")),
              calls |-> << "initialize_mint" >>]
        ELSE [resp |-> instruction_response(built.ix[1]),
              calls |-> << "initialize_mint" >>]

create_token(r) ==
    LET mint_pubkey == Pubkey_from_str(r.mint)
        authority_pubkey == Pubkey_from_str(r.mintAuthority)
        built == initialize_mint(spl_token_id, mint_pubkey.bytes,
                                 authority_pubkey.bytes, None, r.decimals)
    IN  IF ~mint_pubkey.ok
        THEN [resp |-> error_response(Literal("Invalid mint pubkey")), calls |-> << >>]
        ELSE IF ~authority_pubkey.ok
        THEN [resp |-> error_response(Literal("Invalid mint authority pubkey")),
              calls |-> << >>]
        ELSE IF ~built.ok
        THEN [resp |-> error_response(Literal("Failed to create instruction")),
              calls |-> << "initialize_mint" >>]
        ELSE [resp |-> instruction_response(built.ix[1]),
              calls |-> << "initialize_mint" >>]

mint_token(r) ==
    LET mint_pubkey == Pubkey_from_str(r.mint)
        destination_pubkey == Pubkey_from_str(r.destination)
        authority_pubkey == Pubkey_from_str(r.authority)
        built == mint_to(spl_token_id, mint_pubkey.bytes, destination_pubkey.bytes,
                         authority_pubkey.bytes, << >>, r.amount)
    IN  IF ~mint_pubkey.ok
        THEN [resp |-> error_response(Literal("Invalid mint pubkey")), calls |-> << >>]
        ELSE IF ~destination_pubkey.ok
        THEN [resp |-> error_response(Literal("Invalid destination pubkey")),
              calls |-> << >>]
        ELSE IF ~authority_pubkey.ok
        THEN [resp |-> error_response(Literal("Invalid authority pubkey")),
              calls |-> << >>]
        ELSE IF ~built.ok
        THEN [resp |-> error_response(Literal("Failed to create mint_to instruction")),
              calls |-> << "mint_to" >>]
        ELSE [resp |-> instruction_response(built.ix[1]), calls |-> << "mint_to" >>]

sign_failure(msg) == [success |-> FALSE, data |-> None, error |-> Some(msg)]

\* a faulty variant: the secret decoded before the fields are checked
sign_message_decode_first(r) ==
    LET decoded == bs58_decode(r.secret)
        parsed == Keypair_from_bytes(decoded.bytes)
        keypair == parsed.kp[1]
        signature == Ed25519Sign(keypair.secret, keypair.public, as_bytes(r.message))
    IN  IF ~decoded.ok
        THEN [resp |-> sign_failure(Literal("Invalid secret key format")),
              calls |-> << "bs58::decode" >>]
        ELSE IF r.message = << >> \/ r.secret = << >>
        THEN [resp |-> sign_failure(Literal("Missing required fields")),
              calls |-> << "bs58::decode" >>]
        ELSE IF ~parsed.ok
        THEN [resp |-> sign_failure(Literal("Invalid secret key length")),
              calls |-> << "bs58::decode", "Keypair::from_bytes" >>]
        ELSE [resp |-> [success |-> TRUE,
                        data |-> Some([signature |-> base64_encode(signature),
                                       public_key |-> Pubkey_to_string(Keypair_pubkey(keypair)),
                                       message |-> r.message]),
                        error |-> None],
              calls |-> << "bs58::decode", "Keypair::from_bytes", "Keypair::sign_message" >>]

sign_message(r) ==
    LET decoded == bs58_decode(r.secret)
        parsed == Keypair_from_bytes(decoded.bytes)
        keypair == parsed.kp[1]
        signature == Ed25519Sign(keypair.secret, keypair.public, as_bytes(r.message))
    IN  IF r.message = << >> \/ r.secret = << >>
        THEN [resp |-> sign_failure(Literal("Missing required fields")), calls |-> << >>]
        ELSE IF ~decoded.ok
        THEN [resp |-> sign_failure(Literal("Invalid secret key format")),
              calls |-> << "bs58::decode" >>]
        ELSE IF ~parsed.ok
        THEN [resp |-> sign_failure(Literal("Invalid secret key length")),
              calls |-> << "bs58::decode", "Keypair::from_bytes" >>]
        ELSE [resp |-> [success |-> TRUE,
                        data |-> Some([signature |-> base64_encode(signature),
                                       public_key |-> Pubkey_to_string(Keypair_pubkey(keypair)),
                                       message |-> r.message]),
                        error |-> None],
              calls |-> << "bs58::decode", "Keypair::from_bytes", "Keypair::sign_message" >>]

(* ------------------------------------------------------------------ *)
(* Requests                                                             *)
(* ------------------------------------------------------------------ *)

\* n bytes, the first k of them zero
SampleBytes(k, n) ==
    [i \in 1..n |-> IF i <= k THEN 0 ELSE (k * 53 + i * 29) % 256]

\* the seeds the random source may hand out
Seeds == { [i \in 1..SECRET_KEY_LENGTH |-> (k * 101 + i * 7) % 256] : k \in 1..NumSeeds }

\* addresses of the ledger, as clients send them: the token program, the
\* wrapped SOL mint, the associated token account program, the clock sysvar
\* and the memo program
KnownAddresses ==
    << << "T", "o", "k", "e", "n", "k", "e", "g", "Q", "f", "e", "Z", "y", "i", "N", "w",
          "A", "J", "b", "N", "b", "G", "K", "P", "F", "X", "C", "W", "u", "B", "v", "f",
          "9", "S", "s", "6", "2", "3", "V", "Q", "5", "D", "A" >>,
       << "S", "o", "1", "1", "1", "1", "1", "1", "1", "1", "1", "1", "1", "1", "1", "1",
          "1", "1", "1", "1", "1", "1", "1", "1", "1", "1", "1", "1", "1", "1", "1", "1",
          "1", "1", "1", "1", "1", "1", "1", "1", "1", "1", "2" >>,
       << "A", "T", "o", "k", "e", "n", "G", "P", "v", "b", "d", "G", "V", "x", "r", "1",
          "b", "2", "h", "v", "Z", "b", "s", "i", "q", "W", "5", "x", "W", "H", "2", "5",
          "e", "f", "T", "N", "s", "L", "J", "A", "8", "k", "n", "L" >>,
       << "S", "y", "s", "v", "a", "r", "C", "1", "o", "c", "k", "1", "1", "1", "1", "1",
          "1", "1", "1", "1", "1", "1", "1", "1", "1", "1", "1", "1", "1", "1", "1", "1",
          "1", "1", "1", "1", "1", "1", "1", "1", "1", "1", "1" >>,
       << "M", "e", "m", "o", "S", "q", "4", "g", "q", "A", "B", "A", "X", "K", "b", "9",
          "6", "q", "n", "H", "8", "T", "y", "s", "N", "c", "W", "x", "M", "y", "W", "C",
          "q", "X", "g", "D", "L", "G", "m", "f", "c", "H", "r" >> >>

WellFormedKeyTexts == { KnownAddresses[k] : k \in 1..NumKeys }

\* base58 of 31 and of 33 bytes, text with a character outside the alphabet,
\* and text longer than any public key's
ShortKeyText == bs58_encode(SampleBytes(1, PUBKEY_BYTES - 1))
LongKeyText == bs58_encode(SampleBytes(1, PUBKEY_BYTES + 1))
BadCharKeyText == [KnownAddresses[1] EXCEPT ![5] = "0"]
TooLongKeyText == Repeat("z", MAX_BASE58_LEN + 1)

KeyTexts ==
    WellFormedKeyTexts \cup { ShortKeyText, LongKeyText, BadCharKeyText, TooLongKeyText }

\* the requests between two compared sign_message calls draw from fewer keys
ReplayKeyTexts == { KnownAddresses[1], BadCharKeyText }

DecimalSamples == { 0, 9, 255 }
\* every u8, tried with the address of the system program: 32 zero bytes
AllDecimals == 0..255
SweepKeyTexts == { Repeat("1", PUBKEY_BYTES) }

\* 0, 0x0102030405060708 and 2^64 - 1
AmountSamples ==
    { << 0, 0, 0, 0 >>, << 258, 772, 1286, 1800 >>,
      << U64Limb - 1, U64Limb - 1, U64Limb - 1, U64Limb - 1 >> }

Messages == { << >>, << "a" >>, << "t", "e", "s", "t" >> }

\* a seed no generated keypair uses, and secrets built around it
OtherSeed == SampleBytes(0, SECRET_KEY_LENGTH)
ConsistentBytes == OtherSeed \o PublicFromSecret(OtherSeed)
\* the public half of another seed: a curve point, but not this seed's
ForeignHalfBytes == OtherSeed \o PublicFromSecret(SampleBytes(2, SECRET_KEY_LENGTH))
\* a trailing half that is no curve point
NoPointBytes == OtherSeed \o [PublicFromSecret(OtherSeed) EXCEPT ![1] = 1]

StaticSecretTexts ==
    { << >>,
      bs58_encode(ConsistentBytes),
      bs58_encode(ForeignHalfBytes),
      bs58_encode(NoPointBytes),
      bs58_encode(SubSeq(ConsistentBytes, 1, KEYPAIR_LENGTH - 1)),
      bs58_encode(ConsistentBytes \o << 7 >>),
      [bs58_encode(ConsistentBytes) EXCEPT ![3] = "l"] }

\* whole SOL amounts of a transfer
SolSamples == { 0, 1 }
LAMPORTS_PER_SOL == 1000000000

(* ------------------------------------------------------------------ *)
(* The server                                                           *)
(* ------------------------------------------------------------------ *)

Init ==
    /\ verifiesPubkey \in BOOLEAN
    /\ issued = {}
    /\ op = "idle"
    /\ req = None
    /\ resp = None
    /\ calls = << >>
    /\ pc = "idle"
    /\ tx = None
    /\ earlier = None

\* a handler that runs to its response without an external call; `out` is
\* what the handler yields for request `r`
Serve(name, r, out) ==
    /\ op' = name
    /\ req' = Some(r)
    /\ resp' = Some(out.resp)
    /\ calls' = out.calls
    /\ UNCHANGED << verifiesPubkey, pc, tx, earlier >>

\* GET /keypair
GenerateKeypair ==
    /\ op = "idle"
    /\ \E seed \in Seeds :
        \E out \in { generate_keypair(seed) } :
            /\ Serve("generate_keypair", << >>, out)
            /\ issued' = issued \cup { out.resp.data }

\* POST /token/create
CreateToken(keys, decimals) ==
    /\ op = "idle"
    /\ \E m \in keys, a \in keys, d \in decimals :
        LET r == [mint |-> m, mintAuthority |-> a, decimals |-> d]
        IN  \E out \in { create_token(r) } :
                /\ Serve("create_token", r, out)
                /\ UNCHANGED issued

\* POST /token/mint
MintToken(keys) ==
    /\ op = "idle"
    /\ \E m \in keys, d \in keys, a \in keys, n \in AmountSamples :
        LET r == [mint |-> m, destination |-> d, authority |-> a, amount |-> n]
        IN  \E out \in { mint_token(r) } :
                /\ Serve("mint_token", r, out)
                /\ UNCHANGED issued

\* POST /message/sign
SignMessage ==
    /\ op = "idle"
    /\ \E m \in Messages, s \in StaticSecretTexts \cup { k.secret : k \in issued } :
        LET r == [message |-> m, secret |-> s]
        IN  \E out \in { sign_message(r) } :
                /\ Serve("sign_message", r, out)
                /\ UNCHANGED issued

\* POST /send, up to its first external call
SendSol(keys) ==
    /\ op = "idle"
    /\ \E t \in keys, n \in SolSamples :
        LET to_pubkey == Pubkey_from_str(t)
        IN  /\ op = "idle"
            /\ op' = "send_sol"
            /\ req' = Some([to |-> t, amount |-> n])
            /\ calls' = << "Pubkey::from_str" >>
            /\ IF to_pubkey.ok
               THEN /\ pc' = "read_keypair_file"
                    /\ resp' = None
               ELSE /\ pc' = "done"
                    /\ resp' = Some(Literal("Invalid recipient pubkey."))
            /\ UNCHANGED << verifiesPubkey, issued, tx, earlier >>

\* read_keypair_file("id.json")
ReadKeypairFile ==
    /\ op = "send_sol" /\ pc = "read_keypair_file"
    /\ calls' = Append(calls, "read_keypair_file")
    /\ \/ pc' = "get_latest_blockhash" /\ resp' = None
       \/ pc' = "done" /\ resp' = Some(Literal("Could not load sender keypair."))
    /\ UNCHANGED << verifiesPubkey, issued, op, req, tx, earlier >>

\* client.get_latest_blockhash(), then the signed transfer is built
GetLatestBlockhash ==
    /\ op = "send_sol" /\ pc = "get_latest_blockhash"
    /\ calls' = Append(calls, "get_latest_blockhash")
    /\ \/ /\ pc' = "send_and_confirm_transaction"
          /\ resp' = None
          /\ tx' = Some([to |-> Pubkey_from_str(req[1].to).bytes,
                         lamports |-> req[1].amount * LAMPORTS_PER_SOL])
       \/ /\ pc' = "done"
          /\ resp' = Some(Literal("Failed to get blockhash."))
          /\ tx' = tx
    /\ UNCHANGED << verifiesPubkey, issued, op, req, earlier >>

\* a faulty variant: a failed submission is tried again
SendAndConfirmTransactionRetry ==
    /\ op = "send_sol" /\ pc = "send_and_confirm_transaction"
    /\ calls' = Append(calls, "send_and_confirm_transaction")
    /\ Len(calls) < 6
    /\ \/ pc' = "done" /\ resp' = Some(Literal("Success! Tx Signature: {}"))
       \/ pc' = pc /\ resp' = None
    /\ UNCHANGED << verifiesPubkey, issued, op, req, tx, earlier >>

\* client.send_and_confirm_transaction(&tx)
SendAndConfirmTransaction ==
    /\ op = "send_sol" /\ pc = "send_and_confirm_transaction"
    /\ calls' = Append(calls, "send_and_confirm_transaction")
    /\ pc' = "done"
    /\ \/ resp' = Some(Literal("Success! Tx Signature: {}"))
       \/ resp' = Some(Literal("Transaction failed: {}"))
    /\ UNCHANGED << verifiesPubkey, issued, op, req, tx, earlier >>

\* the response is written and the request's values are dropped
Reply ==
    /\ op # "idle" /\ resp # None
    /\ op' = "idle"
    /\ req' = None
    /\ resp' = None
    /\ calls' = << >>
    /\ pc' = "idle"
    /\ tx' = None
    /\ UNCHANGED << verifiesPubkey, issued, earlier >>

\* the same, with the exchange of a sign_message kept by the observer for a
\* later comparison
ReplyObserved ==
    /\ op = "sign_message" /\ resp # None /\ earlier = None
    /\ earlier' = Some([req |-> req[1], resp |-> resp[1]])
    /\ op' = "idle"
    /\ req' = None
    /\ resp' = None
    /\ calls' = << >>
    /\ UNCHANGED << verifiesPubkey, issued, pc, tx >>

Next ==
    \/ GenerateKeypair
    \/ CreateToken(KeyTexts, DecimalSamples)
    \/ CreateToken(SweepKeyTexts, AllDecimals)
    \/ MintToken(KeyTexts)
    \/ SignMessage
    \/ SendSol(KeyTexts)
    \/ ReadKeypairFile
    \/ GetLatestBlockhash
    \/ SendAndConfirmTransaction
    \/ Reply

Spec == Init /\ [][Next]_vars

\* the server with an observer that keeps one sign_message exchange
NextReplay ==
    \/ GenerateKeypair
    \/ CreateToken(ReplayKeyTexts, DecimalSamples)
    \/ MintToken(ReplayKeyTexts)
    \/ SignMessage
    \/ SendSol(ReplayKeyTexts)
    \/ ReadKeypairFile
    \/ GetLatestBlockhash
    \/ SendAndConfirmTransaction
    \/ Reply
    \/ ReplyObserved

SpecReplay == Init /\ [][NextReplay]_vars

(* ------------------------------------------------------------------ *)
(* Properties                                                           *)
(* ------------------------------------------------------------------ *)

Range(f) == { f[i] : i \in DOMAIN f }

IsPrefix(s, t) == Len(s) <= Len(t) /\ s = SubSeq(t, 1, Len(s))

RECURSIVE base64_decode(_)
\* the bytes a padded base64 text stands for
base64_decode(text) ==
    IF text = << >> THEN << >>
    ELSE LET v(i) == IF text[i] = "=" THEN 0 ELSE IndexOf(B64Alphabet, text[i])
             pad == (IF text[3] = "=" THEN 1 ELSE 0) + (IF text[4] = "=" THEN 1 ELSE 0)
             three == << v(1) * 4 + v(2) \div 16,
                         (v(2) % 16) * 16 + v(3) \div 4,
                         (v(3) % 4) * 64 + v(4) >>
         IN  SubSeq(three, 1, 3 - pad) \o base64_decode(SubSeq(text, 5, Len(text)))

\* the u64 that eight little-endian bytes stand for, as limbs
LimbsOfLeBytes(bytes) ==
    [j \in 1..4 |-> bytes[2 * (4 - j) + 1] + 256 * bytes[2 * (4 - j) + 2]]

\* the address of the rent sysvar as the ledger prints it
SysvarRentAddress ==
    << "S", "y", "s", "v", "a", "r", "R", "e", "n", "t", "1", "1", "1", "1", "1", "1",
       "1", "1", "1", "1", "1", "1", "1", "1", "1", "1", "1", "1", "1", "1", "1", "1",
       "1", "1", "1", "1", "1", "1", "1", "1", "1", "1", "1" >>

SignFailure(msg) == [success |-> FALSE, data |-> None, error |-> Some(<< msg >>)]

\* the decoded bytes of the secret of the sign_message request in flight
SecretBytes == bs58_decode(req[1].secret).bytes
TrailingHalf == SubSeq(SecretBytes, SECRET_KEY_LENGTH + 1, Len(SecretBytes))
LeadingHalf == SubSeq(SecretBytes, 1, SECRET_KEY_LENGTH)

\* a sign_message request with both fields, whose secret is base58
SignDecoded ==
    /\ op = "sign_message"
    /\ req[1].message # << >> /\ req[1].secret # << >>
    /\ bs58_decode(req[1].secret).ok

\* C1: a create-mint request with well-formed mint and authority succeeds
\* with the accounts [mint writable non-signer, rent sysvar read-only
\* non-signer] and 35 bytes of data: tag, decimals, authority, flag 'absent'
CreateTokenInstruction ==
    (/\ op = "create_token"
     /\ req[1].mint \in WellFormedKeyTexts \cup SweepKeyTexts
     /\ req[1].mintAuthority \in WellFormedKeyTexts \cup SweepKeyTexts)
    => LET body == resp[1]
           data == base64_decode(body.data.instruction_data)
       IN  /\ body.success
           /\ body.data.accounts =
                << [pubkey |-> req[1].mint, is_signer |-> FALSE, is_writable |-> TRUE],
                   [pubkey |-> SysvarRentAddress, is_signer |-> FALSE,
                    is_writable |-> FALSE] >>
           /\ Len(data) = 35
           /\ data[1] = InitializeMintTag
           /\ data[2] = req[1].decimals
           /\ bs58_encode(SubSeq(data, 3, 34)) = req[1].mintAuthority
           /\ data[35] = 0

CreateTokenServed ==
    /\ op = "create_token"
    /\ req[1].mint \in WellFormedKeyTexts
    /\ req[1].mintAuthority \in WellFormedKeyTexts
    /\ req[1].mint # req[1].mintAuthority
    /\ req[1].decimals = 255
    /\ Len(base64_decode(resp[1].data.instruction_data)) = 35
    /\ resp[1].success

\* C2: a mint-tokens request with three well-formed keys succeeds with the
\* accounts [mint writable, destination writable, authority signer] and 9
\* bytes of data: the mint-to tag, then the amount little-endian
MintTokenInstruction ==
    (/\ op = "mint_token"
     /\ req[1].mint \in WellFormedKeyTexts
     /\ req[1].destination \in WellFormedKeyTexts
     /\ req[1].authority \in WellFormedKeyTexts)
    => LET body == resp[1]
           accounts == body.data.accounts
           data == base64_decode(body.data.instruction_data)
       IN  /\ body.success
           /\ Len(accounts) = 3
           /\ accounts[1] = [pubkey |-> req[1].mint, is_signer |-> FALSE,
                             is_writable |-> TRUE]
           /\ accounts[2] = [pubkey |-> req[1].destination, is_signer |-> FALSE,
                             is_writable |-> TRUE]
           /\ accounts[3].pubkey = req[1].authority
           /\ accounts[3].is_signer
           /\ Len(data) = 9
           /\ data[1] = MintToTag
           /\ LimbsOfLeBytes(SubSeq(data, 2, 9)) = req[1].amount

MintTokenServed ==
    /\ op = "mint_token"
    /\ req[1].mint \in WellFormedKeyTexts
    /\ req[1].destination \in WellFormedKeyTexts \ { req[1].mint }
    /\ req[1].authority \in WellFormedKeyTexts \ { req[1].mint, req[1].destination }
    /\ req[1].amount = << 258, 772, 1286, 1800 >>
    /\ resp[1].success

\* C3: every response of the keypair, create-mint, mint-tokens and
\* sign-message operations is {success: true, data} or {success: false,
\* error}, the failure message in the error field
ResponseEnvelope ==
    (op \in { "generate_keypair", "create_token", "mint_token", "sign_message" })
    => LET body == resp[1]
       IN  IF body.success
           THEN "data" \in DOMAIN body
           ELSE "error" \in DOMAIN body /\ body.error # None

DecodeFailuresDistinguished ==
    /\ (op = "create_token" /\ ~Pubkey_from_str(req[1].mint).ok)
       => \A t \in KeyTexts :
            (/\ ~Pubkey_from_str(t).ok
             /\ Pubkey_from_str(t).err # Pubkey_from_str(req[1].mint).err)
            => create_token([req[1] EXCEPT !.mint = t]).resp # resp[1]
    /\ (op = "mint_token" /\ ~Pubkey_from_str(req[1].mint).ok)
       => \A t \in KeyTexts :
            (/\ ~Pubkey_from_str(t).ok
             /\ Pubkey_from_str(t).err # Pubkey_from_str(req[1].mint).err)
            => mint_token([req[1] EXCEPT !.mint = t]).resp # resp[1]

\* C6: an empty message or secret gets 'Missing required fields' whatever
\* the other field holds, and nothing is decoded or signed
MissingFieldsFirst ==
    (op = "sign_message" /\ (req[1].message = << >> \/ req[1].secret = << >>))
    => /\ resp[1] = SignFailure("Missing required fields")
       /\ calls = << >>

EmptyMessageBadSecret ==
    /\ op = "sign_message"
    /\ req[1].message = << >>
    /\ req[1].secret # << >>
    /\ ~bs58_decode(req[1].secret).ok
    /\ ~resp[1].success

IssuedSecretsSign ==
    /\ op = "generate_keypair"
       => LET k == resp[1].data
              bytes == bs58_decode(k.secret).bytes
          IN  /\ k \in issued
              /\ Len(bytes) = KEYPAIR_LENGTH
              /\ bs58_encode(SubSeq(bytes, SECRET_KEY_LENGTH + 1, KEYPAIR_LENGTH)) = k.pubkey
    /\ \A k \in issued :
         (op = "sign_message" /\ req[1].message # << >> /\ req[1].secret = k.secret)
         => /\ resp[1].success
            /\ resp[1].data[1].public_key = k.pubkey

IssuedSecretUsed ==
    /\ op = "sign_message"
    /\ req[1].message # << >>
    /\ \E k \in issued : req[1].secret = k.secret
    /\ resp[1].success

\* C10: send_sol calls from_str, read_keypair_file, get_latest_blockhash and
\* send_and_confirm_transaction in this order, each at most once; a failed
\* step answers with its own message and no later step runs
SendSteps ==
    << "Pubkey::from_str", "read_keypair_file", "get_latest_blockhash",
       "send_and_confirm_transaction" >>

SendSolFailFast ==
    (op = "send_sol")
    => /\ IsPrefix(calls, SendSteps)
       /\ resp # None
          => /\ pc = "done"
             /\ ~ENABLED (ReadKeypairFile \/ GetLatestBlockhash \/ SendAndConfirmTransaction)
       /\ resp = Some(Literal("Invalid recipient pubkey.")) => Len(calls) = 1
       /\ resp = Some(Literal("Could not load sender keypair.")) => Len(calls) = 2
       /\ resp = Some(Literal("Failed to get blockhash.")) => Len(calls) = 3
       /\ resp \in { Some(Literal("Success! Tx Signature: {}")),
                     Some(Literal("Transaction failed: {}")) } => Len(calls) = 4
       /\ resp = None => Len(calls) < 4 /\ pc = SendSteps[Len(calls) + 1]

SubmissionFailed ==
    /\ op = "send_sol"
    /\ resp = Some(Literal("Transaction failed: {}"))
    /\ Len(calls) = 4

====
